---- MODULE Spec2Model ----
(***************************************************************************)
(* Model of the Arweave uploader plugin (src/main.ts).                     *)
(*                                                                         *)
(* A JavaScript string is modelled as a sequence of tokens (each token a   *)
(* TLA+ string); a template literal is the concatenation of its parts.     *)
(* Every `await` of the source is a point where the handler is suspended   *)
(* and other handlers and user events may run; the code between two awaits *)
(* is one atomic action.                                                   *)
(***************************************************************************)
EXTENDS Integers, Sequences, FiniteSets, TLC

(***************************************************************************)
(* Bounds of the model.                                                    *)
(***************************************************************************)
MaxRuns == 1
MaxClicks == 2
MaxEdits == 2

Min(a, b) == IF a < b THEN a ELSE b

(***************************************************************************)
(* Values.                                                                 *)
(***************************************************************************)
\* getActiveFile() returning null
NoFile == "<no file>"
\* a JS null / undefined string result; like "", it is falsy
Null == <<>>
\* no error pending
NoError == "<no error>"
\* button element not created yet
NoButton == "<no button>"
\* the settings tab has not been displayed since the plugin was loaded
NoTab == "<no tab>"
\* plugin.settings of an instance whose loadSettings has not assigned it yet
Undefined == "<undefined>"

\* DEFAULT_SETTINGS
DEFAULT_SETTINGS == [privateKey |-> ""]

(***************************************************************************)
(* The vault: notes and attachments of the host (inputs of the program).   *)
(* A note has a base name, its markdown text and the embed index the       *)
(* host's metadata cache holds for it (cache.embeds, the links in order).  *)
(* The host does not index embed syntax inside a code span.                *)
(***************************************************************************)
Notes == {"Trip", "Log", "Doc"}

\* the markdown code-span delimiter (a backtick character)
Backtick == "(backtick)"

NoteContent(n) ==
    CASE n = "Trip" -> <<"Hello ", "![[", "a.png", "]]">>
      [] n = "Log"  -> <<"![[", "b.JpG", "]]", " ", "&", " ", "![[", "b.JpG", "]]",
                         "![[", "c.pdf", "]]", "![[", "d", "$", "$", ".apng", "]]">>
      [] n = "Doc"  -> <<Backtick, "![[", "a.png", "]]", Backtick, " shows ",
                         "![[", "a.png", "]]", "![[", "gone.png", "]]">>

\* cache.embeds of the note: the link of each indexed embed
NoteEmbeds(n) ==
    CASE n = "Trip" -> <<"a.png">>
      [] n = "Log"  -> <<"b.JpG", "b.JpG", "c.pdf", "d$$.apng">>
      [] n = "Doc"  -> <<"a.png", "", "gone.png">>

\* attachment files of the vault (TFile), by link
Files == {"a.png", "b.JpG", "c.pdf", "d$$.apng"}

\* file.name as a string: a "$" and the character after it are tokens of their own
FileName(f) ==
    CASE f = "d$$.apng" -> <<"d", "$", "$", ".apng">>
      [] OTHER -> <<f>>

\* file.extension, character by character
FileExtension(f) ==
    CASE f = "a.png" -> <<"p", "n", "g">>
      [] f = "b.JpG" -> <<"J", "p", "G">>
      [] f = "c.pdf" -> <<"p", "d", "f">>
      [] f = "d$$.apng" -> <<"a", "p", "n", "g">>

FileBytes(f) ==
    CASE f = "a.png" -> <<137, 80, 78, 71>>
      [] f = "b.JpG" -> <<255, 216>>
      [] f = "c.pdf" -> <<37, 80, 68>>
      [] f = "d$$.apng" -> <<137>>

\* the indices at which pattern occurs in s
Occurrences(s, pattern) ==
    {i \in 1..(Len(s) - Len(pattern) + 1) : SubSeq(s, i, i + Len(pattern) - 1) = pattern}

\* String.prototype.includes
Contains(s, pattern) == Occurrences(s, pattern) # {}

(***************************************************************************)
(* exportToHtml                                                            *)
(***************************************************************************)
\* the renderer's escaping of text: the characters & < > " ' , tokens of their
\* own in a note, become entities
Escape(c) ==
    CASE c = "&"  -> "&amp;"
      [] c = "<"  -> "&lt;"
      [] c = ">"  -> "&gt;"
      [] c = "\"" -> "&quot;"
      [] c = "'"  -> "&#39;"
      [] OTHER    -> c

RECURSIVE MarkedInline(_, _)
\* inline rendering: a backtick opens or closes a code span, other text is
\* escaped
MarkedInline(s, inCode) ==
    IF s = <<>> THEN <<>>
    ELSE IF Head(s) = Backtick
         THEN <<IF inCode THEN "</code>" ELSE "<code>">> \o MarkedInline(Tail(s), ~inCode)
         ELSE <<Escape(Head(s))>> \o MarkedInline(Tail(s), inCode)

\* marked(content): the markdown renderer
marked(content) == <<"<p>">> \o MarkedInline(content, FALSE) \o <<"</p>\n">>

\* the template literal of exportToHtml
FullHtml(basename, htmlContent) ==
    <<"\n<!DOCTYPE html>\n<html lang=\"en\">\n<head>\n  <meta charset=\"UTF-8\">\n  <meta name=\"viewport\" content=\"width=device-width, initial-scale=1.0\">\n  <title>",
      basename,
      "</title>\n  <link rel=\"stylesheet\" href=\"https://cdn.jsdelivr.net/npm/water.css@2/out/water.min.css\">\n</head>\n<body>\n  ">>
    \o htmlContent \o <<"\n</body>\n</html>\n">>

(***************************************************************************)
(* getImageAttachmentsFromCurrentNote                                      *)
(***************************************************************************)
UpperCase ==
    <<"A","B","C","D","E","F","G","H","I","J","K","L","M",
      "N","O","P","Q","R","S","T","U","V","W","X","Y","Z">>
LowerCase ==
    <<"a","b","c","d","e","f","g","h","i","j","k","l","m",
      "n","o","p","q","r","s","t","u","v","w","x","y","z">>

LowerChar(c) ==
    IF \E i \in DOMAIN UpperCase : UpperCase[i] = c
    THEN LowerCase[CHOOSE i \in DOMAIN UpperCase : UpperCase[i] = c]
    ELSE c

\* String.prototype.toLowerCase, on a string given character by character
toLowerCase(str) == [i \in DOMAIN str |-> LowerChar(str[i])]

\* the alternatives of /png|jpg|jpeg|gif|bmp|svg/i
ImageWords ==
    {<<"p","n","g">>, <<"j","p","g">>, <<"j","p","e","g">>,
     <<"g","i","f">>, <<"b","m","p">>, <<"s","v","g">>}

\* file.extension.match(/png|jpg|jpeg|gif|bmp|svg/i): the expression is not
\* anchored and ignores case, so it matches when a word occurs anywhere
ExtensionMatches(ext) == \E w \in ImageWords : Contains(toLowerCase(ext), w)

\* app.metadataCache.getFirstLinkpathDest(getLinkpath(link), path) instanceof TFile
ResolvesToFile(link) == link \in Files

RECURSIVE AttachmentsOfEmbeds(_)
AttachmentsOfEmbeds(embeds) ==
    IF embeds = <<>> THEN <<>>
    ELSE LET link == Head(embeds)
             keep == /\ link # ""
                     /\ ResolvesToFile(link)
                     /\ ExtensionMatches(FileExtension(link))
         IN (IF keep THEN <<link>> ELSE <<>>) \o AttachmentsOfEmbeds(Tail(embeds))

\* the attachments array for the note that is active at the call
getImageAttachmentsFromCurrentNote(currentNote) ==
    IF currentNote = NoFile THEN <<>> ELSE AttachmentsOfEmbeds(NoteEmbeds(currentNote))

(***************************************************************************)
(* convertImageToBase64, getMimeType                                       *)
(***************************************************************************)
\* mimeTypes[extension.toLowerCase()] || 'application/octet-stream'. The table
\* is a plain object: "constructor" and "__proto__" find inherited values, which
\* are truthy and no strings; they are given as the template literal prints them
getMimeType(extension) ==
    LET e == toLowerCase(extension)
    IN CASE e = <<"p","n","g">>     -> "image/png"
         [] e = <<"j","p","g">>     -> "image/jpeg"
         [] e = <<"j","p","e","g">> -> "image/jpeg"
         [] e = <<"g","i","f">>     -> "image/gif"
         [] e = <<"b","m","p">>     -> "image/bmp"
         [] e = <<"s","v","g">>     -> "image/svg+xml"
         [] e = <<"c","o","n","s","t","r","u","c","t","o","r">>
                                    -> "function Object() { [native code] }"
         [] e = <<"_","_","p","r","o","t","o","_","_">>
                                    -> "[object Object]"
         [] OTHER                   -> "application/octet-stream"

Base64Alphabet ==
    <<"A","B","C","D","E","F","G","H","I","J","K","L","M","N","O","P",
      "Q","R","S","T","U","V","W","X","Y","Z","a","b","c","d","e","f",
      "g","h","i","j","k","l","m","n","o","p","q","r","s","t","u","v",
      "w","x","y","z","0","1","2","3","4","5","6","7","8","9","+","/">>

B64(i) == Base64Alphabet[i + 1]

RECURSIVE arrayBufferToBase64(_)
\* standard base64 with padding, three bytes at a time
arrayBufferToBase64(bytes) ==
    IF bytes = <<>> THEN <<>>
    ELSE IF Len(bytes) = 1
    THEN <<B64(bytes[1] \div 4), B64((bytes[1] % 4) * 16), "=", "=">>
    ELSE IF Len(bytes) = 2
    THEN <<B64(bytes[1] \div 4),
           B64((bytes[1] % 4) * 16 + bytes[2] \div 16),
           B64((bytes[2] % 16) * 4), "=">>
    ELSE <<B64(bytes[1] \div 4),
           B64((bytes[1] % 4) * 16 + bytes[2] \div 16),
           B64((bytes[2] % 16) * 4 + bytes[3] \div 64),
           B64(bytes[3] % 64)>>
         \o arrayBufferToBase64(SubSeq(bytes, 4, Len(bytes)))

\* `data:${mimeType};base64,${base64String}`
convertImageToBase64(file) ==
    <<"data:", getMimeType(FileExtension(file)), ";base64,">>
    \o arrayBufferToBase64(FileBytes(file))

(***************************************************************************)
(* The inlining step of openModal                                          *)
(***************************************************************************)
\* `![[${image.name}]]`
EmbedSyntax(name) == <<"![[">> \o name \o <<"]]">>

\* `<img src="${base64}" alt="${image.name}">`
ImgTag(base64, name) ==
    <<"<img src=\"">> \o base64 \o <<"\" alt=\"">> \o name \o <<"\">">>

RECURSIVE GetSubstitution(_, _, _, _)
\* the replacement text of String.prototype.replace for a string pattern:
\* $$ is a dollar sign, $& the matched text, $(backtick) the text before the
\* match, $' the text after it; any other $ stands for itself
GetSubstitution(replacement, matched, before, after) ==
    IF replacement = <<>> THEN <<>>
    ELSE IF Head(replacement) = "$" /\ Len(replacement) >= 2
              /\ replacement[2] \in {"$", "&", Backtick, "'"}
    THEN (CASE replacement[2] = "$" -> <<"$">>
            [] replacement[2] = "&" -> matched
            [] replacement[2] = Backtick -> before
            [] replacement[2] = "'" -> after)
         \o GetSubstitution(SubSeq(replacement, 3, Len(replacement)),
                            matched, before, after)
    ELSE <<Head(replacement)>>
         \o GetSubstitution(Tail(replacement), matched, before, after)

\* String.prototype.replace with a string pattern: the first occurrence only
StringReplace(s, pattern, replacement) ==
    IF Occurrences(s, pattern) = {} THEN s
    ELSE LET i == CHOOSE k \in Occurrences(s, pattern) :
                      \A j \in Occurrences(s, pattern) : k <= j
             before == SubSeq(s, 1, i - 1)
             after == SubSeq(s, i + Len(pattern), Len(s))
         IN before \o GetSubstitution(replacement, pattern, before, after) \o after

\* html = html.replace(...) of one loop iteration
InlineImage(html, image) ==
    StringReplace(html, EmbedSyntax(FileName(image)),
                  ImgTag(convertImageToBase64(image), FileName(image)))

(***************************************************************************)
(* getTransactionPrice, getArPriceInUSD                                    *)
(* Amounts are fixed-point integers: AR in winston (1 AR = 10^12 winston), *)
(* the fiat cost in 1/10000 $.                                             *)
(***************************************************************************)
\* replies of arweave.transactions.getPrice(data.length), in winston
WinstonQuotes == {120000000, 125000000}

\* replies of the price feed: data.arweave.usd, a number of $, or a reply whose
\* arweave object has no usd (data.arweave.usd is undefined)
FeedReplies == {[defined |-> TRUE, usd |-> 6], [defined |-> FALSE, usd |-> 0]}

\* Math.round(x): the nearest integer, halves rounded up; x = num / den >= 0,
\* den even
MathRound(num, den) == (num + den \div 2) \div den

\* Math.round(usd * priceInAR * 10000) in units of 1/10000 $, with priceInAR =
\* winston / 10^12. The code rounds a floating-point product: where the exact
\* product is not halfway between two integers the result is the exact
\* rounding; where it is halfway, the rounding errors of the product decide
\* between the two neighbours
TxCosts(usd, winston) ==
    IF (usd * winston) % 100000000 = 50000000
    THEN {(usd * winston) \div 100000000, (usd * winston) \div 100000000 + 1}
    ELSE {MathRound(usd * winston, 100000000)}

\* the values txCost can take for a reply of the feed: Number(undefined) is NaN
\* and so is the rounded product
TxCostOutcomes(reply, winston) ==
    IF reply.defined
    THEN {[isNaN |-> FALSE, e4 |-> c] : c \in TxCosts(reply.usd, winston)}
    ELSE {[isNaN |-> TRUE, e4 |-> 0]}

\* `Transaction cost: ~${priceInAR} AR (${txCost}$)`
PriceString(winston, txCost) ==
    [text |-> "Transaction cost: ~{priceInAR} AR ({txCost}$)",
     priceInAR |-> winston, txCost |-> txCost]

NoPrice == [text |-> "", priceInAR |-> 0, txCost |-> [isNaN |-> FALSE, e4 |-> 0]]

\* errors the awaited host and network calls reject with
ReadError == <<"Error: ENOENT">>
NetworkError == <<"Error: Request failed">>
FeedParseError == <<"TypeError: Cannot read properties of undefined (reading 'usd')">>

(***************************************************************************)
(* State.                                                                  *)
(***************************************************************************)
VARIABLES
    activeFile,   \* app.workspace.getActiveFile(): a note or NoFile
    settings,     \* plugin.settings
    runs,         \* the invocations of openModal, by number
    modals,       \* the modal each invocation opened, by number
    disk,         \* the persisted plugin data (loadData / saveData)
    saves,        \* the saveData writes started and not yet completed
    edits,        \* the values entered in the private-key text area, in order
    textArea,     \* the text the settings tab's text area holds, or NoTab
    loading       \* the data a pending loadData of onload has read, or NoLoad

vars == <<activeFile, settings, runs, modals, disk, saves, edits, textArea, loading>>

Runs == 1..MaxRuns

\* an invocation of openModal that has not been made yet
IdleRun ==
    [pc |-> "idle", file |-> NoFile, html |-> Null, attachmentsOf |-> NoFile,
     images |-> <<>>, next |-> 0, priced |-> Null, winston |-> 0,
     notices |-> <<>>, error |-> NoError, calls |-> <<>>]

\* no modal was opened
NoModal ==
    [opened |-> FALSE, isOpen |-> FALSE, priceInUSD |-> NoPrice, data |-> Null,
     pc |-> "none", wallet |-> "", contentEl |-> <<>>, sendButton |-> NoButton,
     notices |-> <<>>, error |-> NoError, calls |-> <<>>, handlers |-> <<>>]

(***************************************************************************)
(* openModal, up to the opening of the modal                               *)
(***************************************************************************)
\* new Notice(text) within a run
Notify(run, text) == [run EXCEPT !.notices = Append(@, text)]

\* a variant without the `if (html)` test: the run goes on to the price query
OpenModalStart_Mutant(run, active) ==
    IF active = NoFile
    THEN [run EXCEPT !.pc = "getPrice", !.priced = Null, !.calls = Append(@, "getPrice")]
    ELSE [run EXCEPT !.pc = "read", !.file = active, !.calls = Append(@, "vault.read")]

\* openModal from its call to the first await (inside exportToHtml)
OpenModalStart(run, active) ==
    IF active = NoFile
    THEN Notify([run EXCEPT !.pc = "done", !.html = Null], <<"No active note to export">>)
    ELSE [run EXCEPT !.pc = "read", !.file = active, !.calls = Append(@, "vault.read")]

\* the call of getTransactionPrice(html): up to its first await
StartPrice(run) ==
    [run EXCEPT !.pc = "getPrice", !.priced = run.html, !.calls = Append(@, "getPrice")]

\* the head of the for loop: the next image is read, or the loop is left
LoopHead(run) ==
    IF run.next <= Len(run.images)
    THEN [run EXCEPT !.pc = "readBinary", !.calls = Append(@, "vault.readBinary")]
    ELSE StartPrice(run)

\* exportToHtml resumes with the note's text; openModal goes on to its next await
AfterRead(run, content, active) ==
    LET html == FullHtml(run.file, marked(content))
        got  == [run EXCEPT !.html = html, !.attachmentsOf = active,
                            !.images = getImageAttachmentsFromCurrentNote(active),
                            !.next = 1]
        seen == IF active = NoFile
                THEN Notify(got, <<"No active note to export">>)
                ELSE got
    IN IF html # Null THEN LoopHead(seen)
       ELSE Notify([run EXCEPT !.pc = "done"], <<"No active note to export">>)

\* one iteration of the loop: convertImageToBase64 resumes, the embed is replaced
AfterReadBinary(run) ==
    LoopHead([run EXCEPT !.html = InlineImage(run.html, run.images[run.next]),
                         !.next = run.next + 1])

\* an awaited host read rejects: openModal rejects, nothing catches it
AfterReadError(run, err) == [run EXCEPT !.pc = "failed", !.error = err]

\* getPrice resolved: winstonToAr, then getArPriceInUSD's request
AfterGetPrice(run, winston) ==
    [run EXCEPT !.pc = "getUsd", !.winston = winston, !.calls = Append(@, "requestUrl")]

\* a variant whose catch throws again without a notice
PriceCatch_Mutant(run, err) ==
    [run EXCEPT !.pc = "failed", !.error = err]

\* the catch of getTransactionPrice: a notice, and the error is thrown again,
\* which rejects openModal
PriceCatch(run, err) ==
    Notify([run EXCEPT !.pc = "failed", !.error = err],
           <<"Error calculating transaction price: ">> \o err)

(***************************************************************************)
(* The stored credential and JSON.parse                                    *)
(***************************************************************************)
\* a wallet key file (JWK) as text
Jwk == "{\"kty\":\"RSA\",\"n\":\"0vx7\",\"e\":\"AQAB\",\"d\":\"X4cT\"}"
\* valid JSON that is no wallet
NotWallet == "42"
\* values of the private-key setting: the default, a wallet, JSON that is no wallet
Keys == {"", Jwk, NotWallet}

\* JSON.parse(text) returns (TRUE) or throws a SyntaxError (FALSE)
JsonParses(text) == text \in {Jwk, NotWallet}
\* the parsed value is a usable wallet
IsWallet(text) == text = Jwk

SyntaxError == <<"SyntaxError: Unexpected end of JSON input">>
WalletError == <<"TypeError: The \"key\" argument must be a wallet">>

(***************************************************************************)
(* ArweaveUploaderModal.onOpen and getBalanceByPrivateKey                  *)
(***************************************************************************)
\* replies of arweave.wallets.getBalance(address), in winston
BalanceReplies == {1500000000}

\* contentEl.createEl(tag, {text})
Element(tag, text, amount) == [tag |-> tag, text |-> text, amount |-> amount]

\* the catch of getBalanceByPrivateKey: a notice, the error is thrown again and
\* rejects onOpen
BalanceCatch(modal, err) ==
    [modal EXCEPT !.pc = "failed", !.error = err,
                  !.notices = Append(@, <<"Error getting balance: ">> \o err)]

\* new ArweaveUploaderModal(app, priceInUSD, data, plugin).open(): the
\* constructor, then onOpen up to the first await of getBalanceByPrivateKey
OpenModalDialog(priceInUSD, data, privateKey) ==
    LET modal == [NoModal EXCEPT !.opened = TRUE, !.isOpen = TRUE,
                                 !.priceInUSD = priceInUSD, !.data = data]
    IN IF JsonParses(privateKey)
       THEN [modal EXCEPT !.pc = "getAddress", !.wallet = privateKey,
                          !.calls = Append(@, "wallets.getAddress")]
       ELSE BalanceCatch(modal, SyntaxError)

\* getAddress resolved: the balance is requested
AfterGetAddress(modal) ==
    [modal EXCEPT !.pc = "getBalance", !.calls = Append(@, "wallets.getBalance")]

\* getBalance resolved: onOpen builds the content and the button
AfterGetBalance(modal, winston) ==
    [modal EXCEPT
        !.pc = "ready",
        !.contentEl = @ \o
            <<Element("p", <<"Your wallet balance: ", "{balanceInAR}", " AR">>, winston),
              Element("p", <<"Transaction cost: ", modal.priceInUSD.text>>,
                      modal.priceInUSD.txCost.e4),
              Element("button", <<"Upload note to Arweave">>, 0)>>,
        !.sendButton = "Upload note to Arweave"]

\* the price feed replied: getTransactionPrice returns and openModal opens the modal
AfterGetUsd(run, reply) == [run EXCEPT !.pc = "done"]

(***************************************************************************)
(* sendButton.onclick and uploadToArweave                                  *)
(***************************************************************************)
\* transaction ids the signing produces, one per transaction
TxIds == <<"txid-A", "txid-B", "txid-C", "txid-D">>

\* response.status values of transactions.post
Statuses == {200, 202, 400, 500}

\* a click handler: the position of uploadToArweave and what it did
NewHandler ==
    [pc |-> "createTransaction", wallet |-> "", txid |-> "", status |-> 0, url |-> Null,
     error |-> NoError, notices |-> <<>>, signs |-> 0, posts |-> 0]

\* a variant that takes every response for a success
IsSuccessStatus_Mutant(status) == status >= 200

\* response.status === 200 || response.status === 202
IsSuccessStatus(status) == status = 200 \/ status = 202

\* `https://arweave.net/${transaction.id}`
Url(txid) == <<"https://arweave.net/", txid>>

\* the catch of uploadToArweave: a notice, and the error is thrown again, which
\* rejects the click handler
UploadCatch(h, err) ==
    [h EXCEPT !.pc = "failed", !.error = err,
              !.notices = Append(@, <<"Error uploading to Arweave: ">> \o err)]

\* the click, up to uploadToArweave's first await; JSON.parse is before the try
ClickStart(privateKey) ==
    IF JsonParses(privateKey)
    THEN [NewHandler EXCEPT !.wallet = privateKey]
    ELSE [NewHandler EXCEPT !.pc = "failed", !.error = SyntaxError]

\* createTransaction resolved: addTag, then transactions.sign
AfterCreate(h) == [h EXCEPT !.pc = "sign", !.signs = @ + 1]

\* sign resolved: transactions.post
AfterSign(h, txid) == [h EXCEPT !.pc = "post", !.txid = txid, !.posts = @ + 1]

\* a variant that posts again when the submission is rejected
AfterReject_Mutant(h, err) ==
    IF h.pc = "post" THEN [h EXCEPT !.posts = @ + 1] ELSE UploadCatch(h, err)

\* an awaited call of the try block rejected
AfterReject(h, err) == UploadCatch(h, err)

\* post resolved with a response: the URL is returned or the error is thrown
AfterPost(h, status) ==
    IF IsSuccessStatus(status)
    THEN [h EXCEPT !.pc = "done", !.status = status, !.url = Url(h.txid)]
    ELSE UploadCatch([h EXCEPT !.status = status],
                     <<"Error: Transaction failed with status ", ToString(status)>>)

\* the click handler after `await this.plugin.uploadToArweave(this.data)`:
\* it runs on only when the promise resolved
AfterUpload(modal, h) ==
    IF h.pc # "done" THEN modal
    ELSE IF h.url # Null
    THEN [modal EXCEPT !.contentEl = @ \o <<Element("p", <<"Tx sent">>, 0),
                                            Element("a", h.url, 0)>>,
                       !.sendButton = "Upload note to Arweave"]
    ELSE [modal EXCEPT !.notices = Append(@, <<"Error sending transaction">>),
                       !.sendButton = "Upload note to Arweave"]

\* handler k of the modal takes a step to h
StepHandler(modal, k, h) ==
    AfterUpload([modal EXCEPT !.handlers[k] = h], h)

\* the click itself: the button is relabelled and uploadToArweave called
Click(modal, privateKey) ==
    LET h == ClickStart(privateKey)
        m == [modal EXCEPT !.sendButton = "Uploading...",
                           !.handlers = Append(@, h)]
    IN AfterUpload(m, h)

\* onClose
OnClose(modal) == [modal EXCEPT !.isOpen = FALSE, !.contentEl = <<>>]

(***************************************************************************)
(* Settings: loadSettings, saveSettings, the settings tab                  *)
(***************************************************************************)
\* the data file does not exist: loadData() resolves to null
NoData == [exists |-> FALSE, privateKey |-> ""]

\* the data file as saveData(settings) writes it
Stored(s) == [exists |-> TRUE, privateKey |-> s.privateKey]

\* Object.assign({}, DEFAULT_SETTINGS, await this.loadData())
loadSettings(data) ==
    IF data.exists THEN [privateKey |-> data.privateKey] ELSE DEFAULT_SETTINGS

\* the onChange callback up to its await: the field is set, the save is started
OnChange(s, value) == [s EXCEPT !.privateKey = value]

\* display(): the text area is built anew with .setValue(settings.privateKey)
TextAreaValue(s) == s.privateKey

\* no onload is awaiting loadData
NoLoad == [pending |-> FALSE, data |-> NoData]

RemoveAt(q, i) == SubSeq(q, 1, i - 1) \o SubSeq(q, i + 1, Len(q))

(***************************************************************************)
(* Actions: the export                                                     *)
(***************************************************************************)
\* the ribbon icon or the command calls openModal
OpenModal(r) ==
    /\ runs[r].pc = "idle"
    /\ \A q \in 1..(r - 1) : runs[q].pc # "idle"
    /\ runs' = [runs EXCEPT ![r] = OpenModalStart(runs[r], activeFile)]
    /\ UNCHANGED <<activeFile, settings, modals, disk, saves, edits, textArea, loading>>

\* the user makes another note, or none, the active one
SwitchNote(n) ==
    /\ n # activeFile
    /\ activeFile' = n
    /\ UNCHANGED <<settings, runs, modals, disk, saves, edits, textArea, loading>>

\* vault.read resolves
ReadResolved(r) ==
    /\ runs[r].pc = "read"
    /\ runs' = [runs EXCEPT ![r] = AfterRead(runs[r], NoteContent(runs[r].file), activeFile)]
    /\ UNCHANGED <<activeFile, settings, modals, disk, saves, edits, textArea, loading>>

\* vault.readBinary resolves
ReadBinaryResolved(r) ==
    /\ runs[r].pc = "readBinary"
    /\ runs' = [runs EXCEPT ![r] = AfterReadBinary(runs[r])]
    /\ UNCHANGED <<activeFile, settings, modals, disk, saves, edits, textArea, loading>>

\* vault.read or vault.readBinary rejects
ReadRejected(r) ==
    /\ runs[r].pc \in {"read", "readBinary"}
    /\ runs' = [runs EXCEPT ![r] = AfterReadError(runs[r], ReadError)]
    /\ UNCHANGED <<activeFile, settings, modals, disk, saves, edits, textArea, loading>>

\* transactions.getPrice resolves
GetPriceResolved(r, winston) ==
    /\ runs[r].pc = "getPrice"
    /\ runs' = [runs EXCEPT ![r] = AfterGetPrice(runs[r], winston)]
    /\ UNCHANGED <<activeFile, settings, modals, disk, saves, edits, textArea, loading>>

\* transactions.getPrice rejects
GetPriceRejected(r) ==
    /\ runs[r].pc = "getPrice"
    /\ runs' = [runs EXCEPT ![r] = PriceCatch(runs[r], NetworkError)]
    /\ UNCHANGED <<activeFile, settings, modals, disk, saves, edits, textArea, loading>>

\* the price feed replies with an arweave object: the price string is built and
\* the modal opened
GetUsdResolved(r, reply, txCost) ==
    /\ runs[r].pc = "getUsd"
    /\ txCost \in TxCostOutcomes(reply, runs[r].winston)
    /\ runs' = [runs EXCEPT ![r] = AfterGetUsd(runs[r], reply)]
    /\ modals' = [modals EXCEPT ![r] =
            OpenModalDialog(PriceString(runs[r].winston, txCost), runs[r].html,
                            settings.privateKey)]
    /\ UNCHANGED <<activeFile, settings, disk, saves, edits, textArea, loading>>

\* the price feed request rejects, or its reply has no arweave object
GetUsdRejected(r, err) ==
    /\ runs[r].pc = "getUsd"
    /\ runs' = [runs EXCEPT ![r] = PriceCatch(runs[r], err)]
    /\ UNCHANGED <<activeFile, settings, modals, disk, saves, edits, textArea, loading>>

(***************************************************************************)
(* Actions: the modal                                                      *)
(***************************************************************************)
\* wallets.getAddress resolves for a wallet and rejects for anything else
GetAddressSettled(r) ==
    /\ modals[r].pc = "getAddress"
    /\ modals' = [modals EXCEPT ![r] =
            IF IsWallet(modals[r].wallet) THEN AfterGetAddress(modals[r])
            ELSE BalanceCatch(modals[r], WalletError)]
    /\ UNCHANGED <<activeFile, settings, runs, disk, saves, edits, textArea, loading>>

\* wallets.getBalance resolves
GetBalanceResolved(r, winston) ==
    /\ modals[r].pc = "getBalance"
    /\ modals' = [modals EXCEPT ![r] = AfterGetBalance(modals[r], winston)]
    /\ UNCHANGED <<activeFile, settings, runs, disk, saves, edits, textArea, loading>>

\* wallets.getBalance rejects
GetBalanceRejected(r) ==
    /\ modals[r].pc = "getBalance"
    /\ modals' = [modals EXCEPT ![r] = BalanceCatch(modals[r], NetworkError)]
    /\ UNCHANGED <<activeFile, settings, runs, disk, saves, edits, textArea, loading>>

\* the user clicks the upload button
ClickSend(r) ==
    /\ modals[r].isOpen
    /\ modals[r].pc = "ready"
    /\ Len(modals[r].handlers) < Min(MaxClicks, Len(TxIds))
    /\ modals' = [modals EXCEPT ![r] = Click(modals[r], settings.privateKey)]
    /\ UNCHANGED <<activeFile, settings, runs, disk, saves, edits, textArea, loading>>

\* createTransaction resolves
CreateResolved(r, k) ==
    /\ k \in DOMAIN modals[r].handlers
    /\ modals[r].handlers[k].pc = "createTransaction"
    /\ modals' = [modals EXCEPT ![r] =
            StepHandler(modals[r], k, AfterCreate(modals[r].handlers[k]))]
    /\ UNCHANGED <<activeFile, settings, runs, disk, saves, edits, textArea, loading>>

\* transactions.sign resolves (it needs a wallet)
SignResolved(r, k) ==
    /\ k \in DOMAIN modals[r].handlers
    /\ modals[r].handlers[k].pc = "sign"
    /\ IsWallet(modals[r].handlers[k].wallet)
    /\ modals' = [modals EXCEPT ![r] =
            StepHandler(modals[r], k, AfterSign(modals[r].handlers[k], TxIds[k]))]
    /\ UNCHANGED <<activeFile, settings, runs, disk, saves, edits, textArea, loading>>

\* createTransaction or post rejects (the network), or sign does (the key)
CallRejected(r, k) ==
    /\ k \in DOMAIN modals[r].handlers
    /\ modals[r].handlers[k].pc \in {"createTransaction", "sign", "post"}
    /\ modals' = [modals EXCEPT ![r] =
            StepHandler(modals[r], k,
                AfterReject(modals[r].handlers[k],
                            IF modals[r].handlers[k].pc = "sign"
                            THEN WalletError ELSE NetworkError))]
    /\ UNCHANGED <<activeFile, settings, runs, disk, saves, edits, textArea, loading>>

\* transactions.post resolves with a response
PostResolved(r, k, status) ==
    /\ k \in DOMAIN modals[r].handlers
    /\ modals[r].handlers[k].pc = "post"
    /\ modals' = [modals EXCEPT ![r] =
            StepHandler(modals[r], k, AfterPost(modals[r].handlers[k], status))]
    /\ UNCHANGED <<activeFile, settings, runs, disk, saves, edits, textArea, loading>>

\* the user closes the modal
CloseModal(r) ==
    /\ modals[r].isOpen
    /\ modals' = [modals EXCEPT ![r] = OnClose(modals[r])]
    /\ UNCHANGED <<activeFile, settings, runs, disk, saves, edits, textArea, loading>>

(***************************************************************************)
(* Actions: the settings                                                   *)
(***************************************************************************)
\* the user edits the text area: onChange sets the field and starts a save;
\* saveData serialises the settings object at the call. Nothing in the code
\* ties an edit to the state of a modal or of an earlier save
EditKey(value) ==
    /\ Len(edits) < MaxEdits
    /\ textArea # NoTab
    /\ value # textArea
    /\ textArea' = value
    /\ settings' = OnChange(settings, value)
    /\ saves' = Append(saves, Stored(settings'))
    /\ edits' = Append(edits, value)
    /\ UNCHANGED <<activeFile, runs, modals, disk, loading>>

\* the user opens the settings tab: display() shows the key of the settings
Display ==
    /\ ~loading.pending
    /\ textArea' = TextAreaValue(settings)
    /\ UNCHANGED <<activeFile, settings, runs, modals, disk, saves, edits, loading>>

\* a started write reaches the data file; the code awaits each save in its own
\* callback and orders none after another
SaveCompleted(i) ==
    /\ i \in DOMAIN saves
    /\ disk' = saves[i]
    /\ saves' = RemoveAt(saves, i)
    /\ UNCHANGED <<activeFile, settings, runs, modals, edits, textArea, loading>>

\* the plugin is loaded again: onload of the new instance calls loadSettings,
\* which calls loadData and awaits it. The instance has no settings and no
\* settings tab yet; the data is what the file holds at the call (a read
\* that the host makes later is this step taken later)
LoadStart ==
    /\ ~loading.pending
    /\ loading' = [pending |-> TRUE, data |-> disk]
    /\ settings' = Undefined
    /\ textArea' = NoTab
    /\ UNCHANGED <<activeFile, runs, modals, disk, saves, edits>>

\* loadData resolves: loadSettings assigns the settings, and onload goes on to
\* add the settings tab, which display() has yet to fill
LoadFinish ==
    /\ loading.pending
    /\ settings' = loadSettings(loading.data)
    /\ loading' = NoLoad
    /\ UNCHANGED <<activeFile, runs, modals, disk, saves, edits, textArea>>

(***************************************************************************)
(* Specifications                                                          *)
(***************************************************************************)
\* the state after onload: the settings are those of the data file
InitLoaded ==
    /\ activeFile \in Notes \cup {NoFile}
    /\ disk \in {NoData} \cup {Stored([privateKey |-> k]) : k \in Keys}
    /\ settings = loadSettings(disk)
    /\ runs = [r \in Runs |-> IdleRun]
    /\ modals = [r \in Runs |-> NoModal]
    /\ saves = <<>>
    /\ edits = <<>>
    /\ textArea = NoTab
    /\ loading = NoLoad

NextExport ==
    \/ \E r \in Runs : OpenModal(r)
    \/ \E n \in Notes \cup {NoFile} : SwitchNote(n)
    \/ \E r \in Runs : ReadResolved(r)
    \/ \E r \in Runs : ReadBinaryResolved(r)
    \/ \E r \in Runs : ReadRejected(r)
    \/ \E r \in Runs, w \in WinstonQuotes : GetPriceResolved(r, w)
    \/ \E r \in Runs : GetPriceRejected(r)
    \/ \E r \in Runs, reply \in FeedReplies :
          \E txCost \in TxCostOutcomes(reply, runs[r].winston) :
              GetUsdResolved(r, reply, txCost)
    \/ \E r \in Runs, err \in {NetworkError, FeedParseError} : GetUsdRejected(r, err)

\* the export: openModal runs up to the opening of their modals
Spec == InitLoaded /\ [][NextExport]_vars

RECURSIVE FinishLoop(_)
\* the inlining loop of a run run to its end
FinishLoop(run) == IF run.pc = "readBinary" THEN FinishLoop(AfterReadBinary(run)) ELSE run

\* the run of openModal on note n that nothing interrupted, at the price feed's reply
ExportedRun(n, winston) ==
    AfterGetPrice(FinishLoop(AfterRead(OpenModalStart(IdleRun, n), NoteContent(n), n)),
                  winston)

\* the state in which the first openModal has just opened its modal
InitModal ==
    /\ activeFile \in Notes
    /\ disk \in {NoData} \cup {Stored([privateKey |-> k]) : k \in Keys}
    /\ settings = loadSettings(disk)
    /\ \E w \in WinstonQuotes, reply \in FeedReplies :
       \E txCost \in TxCostOutcomes(reply, w) :
        LET run == ExportedRun(activeFile, w)
        IN /\ runs = [r \in Runs |-> IF r = 1 THEN AfterGetUsd(run, reply) ELSE IdleRun]
           /\ modals = [r \in Runs |->
                 IF r = 1
                 THEN OpenModalDialog(PriceString(w, txCost), run.html, settings.privateKey)
                 ELSE NoModal]
    /\ saves = <<>>
    /\ edits = <<>>
    /\ textArea = NoTab
    /\ loading = NoLoad

NextModal ==
    \/ \E r \in Runs : GetAddressSettled(r)
    \/ \E r \in Runs, w \in BalanceReplies : GetBalanceResolved(r, w)
    \/ \E r \in Runs : GetBalanceRejected(r)
    \/ \E r \in Runs : ClickSend(r)
    \/ \E r \in Runs, k \in 1..MaxClicks : CreateResolved(r, k)
    \/ \E r \in Runs, k \in 1..MaxClicks : SignResolved(r, k)
    \/ \E r \in Runs, k \in 1..MaxClicks : CallRejected(r, k)
    \/ \E r \in Runs, k \in 1..MaxClicks, status \in Statuses : PostResolved(r, k, status)
    \/ \E r \in Runs : CloseModal(r)
    \/ \E v \in Keys : EditKey(v)
    \/ Display

\* the modal: onOpen, the clicks and their uploads, and edits of the key in the
\* settings tab meanwhile
SpecModal == InitModal /\ [][NextModal]_vars

NextSettings ==
    \/ \E v \in Keys : EditKey(v)
    \/ Display
    \/ \E i \in 1..MaxEdits : SaveCompleted(i)
    \/ LoadStart
    \/ LoadFinish

\* the settings tab: edits, their saves and reloads
SpecSettings == InitLoaded /\ [][NextSettings]_vars

(***************************************************************************)
(* Properties                                                              *)
(***************************************************************************)
Handlers(r) == modals[r].handlers
Finished(h) == h.pc \in {"done", "failed"}
OkStatus(status) == status \in {200, 202}

\* the elements of the modal's content with the given tag
Shown(r, tag) == {i \in DOMAIN modals[r].contentEl : modals[r].contentEl[i].tag = tag}
\* the "Tx sent" paragraphs of the modal's content
TxSent(r) == {i \in Shown(r, "p") : modals[r].contentEl[i].text = <<"Tx sent">>}
\* the click handlers whose submission was answered with 200 or 202
Accepted(r) == {k \in DOMAIN Handlers(r) : OkStatus(Handlers(r)[k].status)}

\* C1: uploadToArweave returns the URL https://arweave.net/<transaction id> if and
\* only if the response status is 200 or 202; on any other status it throws
\* "Transaction failed with status <status>" and returns no URL, and the modal
\* shows "Tx sent" and a link only for uploads answered with 200 or 202.
C1_UrlIffSuccessStatus ==
    \A r \in Runs :
        /\ \A k \in DOMAIN Handlers(r) :
              LET h == Handlers(r)[k]
              IN /\ (h.url # Null) <=> OkStatus(h.status)
                 /\ h.url # Null =>
                       h.pc = "done" /\ h.txid # "" /\ h.url = <<"https://arweave.net/", h.txid>>
                 /\ (h.status # 0 /\ ~OkStatus(h.status)) =>
                       /\ h.pc = "failed"
                       /\ h.error = <<"Error: Transaction failed with status ",
                                      ToString(h.status)>>
        /\ \A i \in Shown(r, "a") :
              \E k \in Accepted(r) : modals[r].contentEl[i].text = Handlers(r)[k].url
        /\ Cardinality(TxSent(r)) <= Cardinality(Accepted(r))
        /\ Cardinality(Shown(r, "a")) <= Cardinality(Accepted(r))

\* one upload was answered 202 and its link is shown, another was answered with
\* an error status and failed
C1_Witness ==
    \E r \in Runs : \E j, k \in DOMAIN Handlers(r) :
        /\ Handlers(r)[j].status = 202 /\ Handlers(r)[j].url # Null
        /\ Shown(r, "a") # {} /\ TxSent(r) # {}
        /\ Handlers(r)[k].status \in {400, 500} /\ Handlers(r)[k].pc = "failed"

\* C2: when openModal runs with no active note, exportToHtml yields null without
\* raising, the notice "No active note to export" is shown, no modal is opened
\* and the run makes no read and no network call.
C2_NoActiveNote ==
    \A r \in Runs :
        (runs[r].pc # "idle" /\ runs[r].file = NoFile) =>
            /\ runs[r].pc = "done"
            /\ runs[r].html = Null
            /\ runs[r].error = NoError
            /\ runs[r].notices = << <<"No active note to export">> >>
            /\ ~modals[r].opened
            /\ runs[r].calls = <<>>
            /\ modals[r].calls = <<>>

\* an openModal that found no active note has ended
C2_Witness ==
    \E r \in Runs :
        runs[r].pc = "done" /\ runs[r].file = NoFile /\ runs[r].notices # <<>>

RECURSIVE SumPosts(_)
SumPosts(hs) == IF hs = <<>> THEN 0 ELSE Head(hs).posts + SumPosts(Tail(hs))
RECURSIVE SumSigns(_)
SumSigns(hs) == IF hs = <<>> THEN 0 ELSE Head(hs).signs + SumSigns(Tail(hs))

\* C3: a click causes at most one signing and at most one submission, exactly
\* one of each once the signing succeeded, and a failed or rejected submission
\* is not retried: the submissions never outnumber the clicks.
C3_OneSubmissionPerClick ==
    \A r \in Runs :
        /\ \A k \in DOMAIN Handlers(r) :
              LET h == Handlers(r)[k]
              IN /\ h.signs <= 1 /\ h.posts <= 1
                 /\ h.posts <= h.signs
                 /\ (h.txid # "" \/ h.status # 0) => (h.signs = 1 /\ h.posts = 1)
        /\ SumPosts(Handlers(r)) <= Len(Handlers(r))
        /\ SumSigns(Handlers(r)) <= Len(Handlers(r))

\* two clicks were made; one upload's submission was rejected or answered with
\* an error and has ended, after exactly one submission
C3_Witness ==
    \E r \in Runs : \E k \in DOMAIN Handlers(r) :
        /\ Len(Handlers(r)) = 2
        /\ Handlers(r)[k].pc = "failed" /\ Handlers(r)[k].txid # ""
        /\ Handlers(r)[k].posts = 1
        /\ SumPosts(Handlers(r)) = 2

\* C4: every failure of getTransactionPrice, getBalanceByPrivateKey and
\* uploadToArweave, the parse of the stored credential included, is shown as a
\* notice before it reaches the caller.
C4_EveryFailureNotified ==
    \A r \in Runs :
        /\ (runs[r].pc = "failed" /\ runs[r].priced # Null) => runs[r].notices # <<>>
        /\ modals[r].pc = "failed" =>
              modals[r].notices = << <<"Error getting balance: ">> \o modals[r].error >>
        /\ \A k \in DOMAIN Handlers(r) :
              Handlers(r)[k].pc = "failed" =>
                  Handlers(r)[k].notices =
                      << <<"Error uploading to Arweave: ">> \o Handlers(r)[k].error >>

\* C5: once every upload started from the modal has finished, done or failed,
\* the button reads "Upload note to Arweave" again.
C5_ButtonRestored ==
    \A r \in Runs :
        (Handlers(r) # <<>> /\ \A k \in DOMAIN Handlers(r) : Finished(Handlers(r)[k]))
            => modals[r].sendButton = "Upload note to Arweave"

\* C6: a failure of the price query or of the price feed (its request or the
\* reading of its reply) is shown as an "Error calculating transaction price"
\* notice and ends the run with no modal and no upload; a modal is opened only
\* by a run that ended without error, with the price string getTransactionPrice
\* returned for exactly the payload the modal holds, the price query and the
\* feed request being the last calls made.
C6_PriceFailureAborts ==
    \A r \in Runs :
        /\ (runs[r].pc = "failed" /\ runs[r].priced # Null) =>
              /\ runs[r].error \in {NetworkError, FeedParseError}
              /\ runs[r].notices # <<>>
              /\ runs[r].notices[Len(runs[r].notices)] =
                    <<"Error calculating transaction price: ">> \o runs[r].error
              /\ ~modals[r].opened
              /\ Handlers(r) = <<>>
        /\ modals[r].opened =>
              /\ runs[r].pc = "done"
              /\ runs[r].error = NoError
              /\ modals[r].data = runs[r].priced
              /\ modals[r].data # Null
              /\ \E reply \in FeedReplies :
                 \E txCost \in TxCostOutcomes(reply, runs[r].winston) :
                    modals[r].priceInUSD = PriceString(runs[r].winston, txCost)
              /\ runs[r].calls[Len(runs[r].calls)] = "requestUrl"
              /\ runs[r].calls[Len(runs[r].calls) - 1] = "getPrice"

\* the reading of the price feed's reply failed and the run has ended in the
\* catch
C6_Witness ==
    \E r \in Runs :
        /\ runs[r].pc = "failed"
        /\ runs[r].priced # Null
        /\ runs[r].error = FeedParseError
        /\ runs[r].notices # <<>>
        /\ ~modals[r].opened

\* C7: in the payload of a modal, no embed syntax of an attachment resolved from
\* the rendered note's embed index remains, and its <img> tag is there.
C7_EveryEmbedInlined ==
    \A r \in Runs :
        (modals[r].opened /\ runs[r].attachmentsOf = runs[r].file) =>
            \A i \in DOMAIN runs[r].images :
                LET image == runs[r].images[i]
                IN /\ Contains(modals[r].data,
                               ImgTag(convertImageToBase64(image), FileName(image)))
                   /\ ~Contains(modals[r].data, EmbedSyntax(FileName(image)))

\* C8: once every started save has completed, the persisted key is the last
\* edit, and loadSettings returns it.
C8_LastEditPersisted ==
    (edits # <<>> /\ saves = <<>>) =>
        /\ disk.exists
        /\ disk.privateKey = edits[Len(edits)]
        /\ loadSettings(disk).privateKey = edits[Len(edits)]

\* C9: at most one upload of a modal is in flight at any time.
C9_OneUploadInFlight ==
    \A r \in Runs :
        Cardinality({k \in DOMAIN Handlers(r) : ~Finished(Handlers(r)[k])}) <= 1

\* C10: the payload handed to the modal never joins the HTML of one note with
\* the attachment list of another.
C10_AttachmentsOfRenderedNote ==
    \A r \in Runs :
        (modals[r].opened /\ runs[r].attachmentsOf # NoFile) =>
            runs[r].attachmentsOf = runs[r].file
====
